---- MODULE Spec2Model ----
(***************************************************************************)
(* The coordinate-resolution pipeline, the cache-backed geocoder and the   *)
(* nearest-neighbour ranking of ILoveDogs/src/components/PetMaps.jsx.      *)
(*                                                                         *)
(* Numbers are degrees in tenths (39.0 is 390), times are milliseconds.    *)
(* A JavaScript string is a TLA+ string, undefined is the string Undef,    *)
(* null is the empty tuple Null, a coordinate [lat, lng] is <<lat, lng>>.  *)
(***************************************************************************)
EXTENDS Integers, Sequences, FiniteSets, TLC

VARIABLES
  records,      \* useState: the fetched record array
  points,       \* useState: the committed Located Points
  loading,      \* useState: the loading flag
  store,        \* localStorage item CACHE_KEY
  feed,         \* the fetch effect's live closure: where it is, or how it ended
  runs,         \* the closures of the pipeline effect, one per run of the effect
  sinceLookup,  \* ms since the last geocode lookup was issued (capped at SLEEP_MS)
  userPos,      \* useState: the user's position, or Null
  geoError,     \* useState: the geolocation error message, or Null
  geoPending,   \* a getCurrentPosition request is outstanding
  nearest       \* useMemo: the ranked nearest list of the last render

pipeVars == <<records, points, loading, store, feed, runs, sinceLookup>>
rankVars == <<userPos, geoError, geoPending, nearest>>
vars == <<records, points, loading, store, feed, runs, sinceLookup,
          userPos, geoError, geoPending, nearest>>

----------------------------------------------------------------------------
(* Bounds of the model *)

\* records in one feed
MaxRecords == 2
\* the resolution budget; the source sets 150 (PetMaps.jsx line 147), scaled
\* down so that a feed of MaxRecords records can exhaust it
MAX_GEOCODE == 1
\* the clock advances in steps of TickMs
TickMs == 550
\* the longest point list handed to the ranker
MaxPoints == 27

(* Program constants *)

\* sleep(1100): the pacing delay before every lookup
SLEEP_MS == 1100
\* withDist.slice(0, 25)
NEAREST_K == 25

----------------------------------------------------------------------------
(* JavaScript values *)

Min(a, b) == IF a < b THEN a ELSE b
Max(a, b) == IF a > b THEN a ELSE b

Undef == "<undefined>"
Null == <<>>
\* parseFloat's NaN: a reserved number outside every parsed value
NaN == 100000

\* parseFloat on the strings that occur in the feeds and geocoding results;
\* anything that does not start with a number (undefined included) is NaN
ParseFloat(s) ==
  CASE s = "39.0"  -> 390
    [] s = "-77.1" -> -771
    [] s = "39.2"  -> 392
    [] s = "-77.3" -> -773
    [] s = "38.9"  -> 389
    [] s = "95.0"  -> 950
    [] s = "-200.5" -> -2005
    [] OTHER -> NaN

IsFiniteAlways(x) == TRUE
\* Number.isFinite
IsFinite(x) == x # NaN

\* a location sub-structure of a record; a property that is absent is Undef
Obj(lat, lng, ha, addr, city) ==
  [t |-> "object", s |-> Undef, latitude |-> lat, longitude |-> lng,
   human_address |-> ha, address |-> addr, city |-> city, state |-> Undef, zip |-> Undef]
Str(s) ==
  [t |-> "string", s |-> s, latitude |-> Undef, longitude |-> Undef,
   human_address |-> Undef, address |-> Undef, city |-> Undef, state |-> Undef, zip |-> Undef]
Missing ==
  [t |-> "undefined", s |-> Undef, latitude |-> Undef, longitude |-> Undef,
   human_address |-> Undef, address |-> Undef, city |-> Undef, state |-> Undef, zip |-> Undef]

\* JavaScript truthiness of a field value
Truthy(v) == \/ v.t = "object"
             \/ v.t = "string" /\ v.s # ""

\* a || b
Or(a, b) == IF Truthy(a) THEN a ELSE b

\* v?.human_address as a value
HumanAddress(v) ==
  IF v.t = "object" /\ v.human_address # Undef THEN Str(v.human_address) ELSE Missing

Rec(intake, loc, found, addr, text) ==
  [intake_location |-> intake, location |-> loc, found_location |-> found,
   address |-> addr, location_text |-> text]

\* The records of the feeds
RecEmbedded ==
  Rec(Obj("39.0", "-77.1", "100 Main St", Undef, Undef), Missing, Missing, Missing, Missing)
RecOutOfRange ==
  Rec(Obj("abc", "-77.1", Undef, Undef, Undef),
      Obj("95.0", "-200.5", Undef, Undef, Undef), Missing, Missing, Missing)
RecAddress ==
  Rec(Missing, Missing, Missing, Str("100 Main St"), Missing)
RecStructured ==
  Rec(Missing, Missing, Obj(Undef, Undef, Undef, "200 Oak Ave", "Rockville"), Missing, Missing)

RecordKinds == {RecEmbedded, RecOutOfRange, RecAddress, RecStructured}

\* the address strings the records above derive: the keys of the cache
Addresses == {"100 Main St", "200 Oak Ave Rockville  "}

\* the JSON arrays the data feed can return
FeedData == UNION {[1..n -> RecordKinds] : n \in 0..MaxRecords}

\* the bodies the geocoding service can return: arrays of results
GeoBodies ==
  { <<>>,
    <<[lat |-> "38.9", lon |-> "-77.1"]>>,
    <<[lat |-> "38.9", lon |-> "-77.1"], [lat |-> "39.2", lon |-> "-77.3"]>>,
    <<[lat |-> "abc", lon |-> "-77.3"]>> }

----------------------------------------------------------------------------
(* The pure functions of the source *)

FieldCoords(v) ==
  IF v.t = "object" /\ v.latitude # Undef /\ v.longitude # Undef
  THEN LET lat == ParseFloat(v.latitude)
           lng == ParseFloat(v.longitude)
       IN IF IsFinite(lat) /\ IsFinite(lng) THEN <<lat, lng>> ELSE Null
  ELSE Null

getCoordsFoundFirst(rec) ==
  IF FieldCoords(rec.found_location) # Null THEN FieldCoords(rec.found_location)
  ELSE IF FieldCoords(rec.location) # Null THEN FieldCoords(rec.location)
  ELSE IF FieldCoords(rec.intake_location) # Null THEN FieldCoords(rec.intake_location)
  ELSE Null
\* for (const k of ['intake_location', 'location', 'found_location'])
getCoordsFromRecord(rec) ==
  IF FieldCoords(rec.intake_location) # Null THEN FieldCoords(rec.intake_location)
  ELSE IF FieldCoords(rec.location) # Null THEN FieldCoords(rec.location)
  ELSE IF FieldCoords(rec.found_location) # Null THEN FieldCoords(rec.found_location)
  ELSE Null

bestAddress(rec) ==
  Or(HumanAddress(rec.intake_location),
  Or(HumanAddress(rec.found_location),
  Or(rec.intake_location,
  Or(rec.found_location,
  Or(rec.address,
  Or(rec.location_text, Missing))))))

\* x || ''
OrEmpty(x) == IF x = Undef \/ x = "" THEN "" ELSE x

\* the address string the pipeline hands to geocode; "" stands for null too,
\* both are falsy in if (addr)
DeriveAddress(addrSource) ==
  IF addrSource.t = "string" THEN addrSource.s
  ELSE IF addrSource.t = "object" /\ addrSource.address # Undef /\ addrSource.address # ""
  THEN addrSource.address \o " " \o OrEmpty(addrSource.city) \o " "
         \o OrEmpty(addrSource.state) \o " " \o OrEmpty(addrSource.zip)
  ELSE ""

----------------------------------------------------------------------------
(* The geocode cache in localStorage *)

EmptyCache == [a \in Addresses |-> Null]

\* the item is absent, holds the JSON of a cache object, or holds text that
\* JSON.parse rejects
StoreAbsent == [state |-> "absent", map |-> EmptyCache]
StoreGarbage == [state |-> "garbage", map |-> EmptyCache]
StoreOf(cache) == [state |-> "json", map |-> cache]

\* JSON.parse throws on the item
ParseThrows(st) == st.state = "garbage"

\* JSON.parse(localStorage.getItem(CACHE_KEY) || '{}') when it does not throw;
\* JSON.stringify and JSON.parse round-trip an object of finite-number pairs
ReadCache(st) == IF st.state = "json" THEN st.map ELSE EmptyCache

CacheHitNever(cache, address) == FALSE
\* if (cache[address])
CacheHit(cache, address) == cache[address] # Null

WriteCacheNot(cache, address, coords) == StoreOf(cache)
\* cache[address] = [lat, lng]; localStorage.setItem(CACHE_KEY, JSON.stringify(cache))
\* (setItem is taken to succeed)
WriteCache(cache, address, coords) == StoreOf([cache EXCEPT ![address] = coords])

\* the coordinate geocode parses from a response body, or Null
ParseBody(body) ==
  IF Len(body) = 0 THEN Null
  ELSE LET lat == ParseFloat(body[1].lat)
           lng == ParseFloat(body[1].lon)
       IN IF ~IsFinite(lat) \/ ~IsFinite(lng) THEN Null ELSE <<lat, lng>>

----------------------------------------------------------------------------
(* One run of the pipeline effect *)

\* A run's history, one entry per record examined: the budget counter as the
\* record found it, whether geocode was called, whether its JSON.parse threw,
\* what the cache held for the address (Null when nothing was read), whether
\* the call slept and issued a lookup, and what it returned.
LogEntry(run, called, threw, cached, slept) ==
  [rec |-> run.i, budget |-> run.geocoded, called |-> called, threw |-> threw,
   cached |-> cached, slept |-> slept, lookedUp |-> FALSE, result |-> Null]

NoCall(run) == LogEntry(run, FALSE, FALSE, Null, FALSE)

Logged(run, entry) == [run EXCEPT !.log = Append(@, entry)]

NewRun(recs) ==
  [recs |-> recs, i |-> 1, out |-> <<>>, geocoded |-> 0, cancelled |-> FALSE,
   pc |-> "loop", address |-> "", cache |-> EmptyCache, timer |-> 0,
   outcome |-> "running", log |-> <<>>]

NeedsFallbackAlways(coords) == TRUE
\* if (!coords)
NeedsFallback(coords) == coords = Null

BudgetLeftOneMore(geocoded) == geocoded <= MAX_GEOCODE
\* geocoded < MAX_GEOCODE
BudgetLeft(geocoded) == geocoded < MAX_GEOCODE

NextRecordUnshift(run, coords) ==
  [run EXCEPT !.out = IF coords # Null
                      THEN <<[lat |-> coords[1], lng |-> coords[2], rec |-> run.i]>> \o @
                      ELSE @,
              !.i = @ + 1]
\* out.push({lat, lng, rec, ...}) and the end of the loop body; the display
\* fields (name, species, address, photo) are left out, rec is its index
NextRecord(run, coords) ==
  [run EXCEPT !.out = IF coords # Null
                      THEN Append(@, [lat |-> coords[1], lng |-> coords[2], rec |-> run.i])
                      ELSE @,
              !.i = @ + 1]

\* const g = await geocode(addr) has returned g: the rest of the loop body
AfterGeocode(run, g) ==
  NextRecord([run EXCEPT !.geocoded = IF g # Null THEN @ + 1 ELSE @,
                         !.log[Len(run.log)].result = g,
                         !.pc = "loop", !.address = "", !.cache = EmptyCache,
                         !.timer = 0],
             g)

CommitAlways(cancelled) == TRUE
\* if (!cancelled)
CommitAllowed(cancelled) == ~cancelled

\* The for loop from record run.i on, up to the next await that suspends
\* (the sleep of a cache miss) or to the end of the loop, where the run
\* commits its points unless it has been cancelled. geocode returning without
\* suspending (cache hit, JSON.parse throwing) settles its promise at once:
\* the await resumes from the microtask queue, before any timer, response or
\* effect can run, so the loop goes on within the same step.
RECURSIVE Loop(_, _)

GeocodeNotAwaited(run, addr, st) == Loop(NextRecord(run, Null), st)
\* const g = await geocode(addr) on a cache miss: geocode is suspended in
\* await sleep(1100) holding the cache object it has read, and the loop is
\* suspended with it
AwaitGeocode(run, addr, st) ==
  [run EXCEPT !.pc = "sleep", !.address = addr, !.cache = ReadCache(st),
              !.timer = SLEEP_MS]

Loop(run, st) ==
  IF run.i > Len(run.recs)
  THEN [run EXCEPT !.pc = "done",
                   !.outcome = IF CommitAllowed(run.cancelled)
                               THEN "committed" ELSE "discarded"]
  ELSE
    LET rec == run.recs[run.i]
        coords == getCoordsFromRecord(rec)
        addrSource == bestAddress(rec)
        addr == IF Truthy(addrSource) /\ BudgetLeft(run.geocoded)
                THEN DeriveAddress(addrSource) ELSE ""
        cached == ReadCache(st)[addr]
    IN IF ~NeedsFallback(coords)
       THEN Loop(NextRecord(Logged(run, NoCall(run)), coords), st)
       ELSE IF addr = ""
       THEN Loop(NextRecord(Logged(run, NoCall(run)), Null), st)
       ELSE IF ParseThrows(st)
       THEN Loop(AfterGeocode(Logged(run, LogEntry(run, TRUE, TRUE, Null, FALSE)), Null), st)
       ELSE IF CacheHit(ReadCache(st), addr)
       THEN Loop(AfterGeocode(Logged(run, LogEntry(run, TRUE, FALSE, cached, FALSE)),
                              cached), st)
       ELSE AwaitGeocode(Logged(run, LogEntry(run, TRUE, FALSE, cached, TRUE)), addr, st)

Finished(run) == run.pc = "done"
Commits(run) == run.outcome = "committed"

\* the cleanup of the pipeline effect: cancelled = true in the closure of the
\* run it belongs to (every earlier run has been cancelled before)
Cleanup(rs) == [r \in DOMAIN rs |-> [rs[r] EXCEPT !.cancelled = TRUE]]

----------------------------------------------------------------------------------------------------------------------------------------------
(* The component: state, effects and their continuations *)

\* the cache items a page load can find in localStorage
InitStores ==
  { StoreAbsent, StoreGarbage,
    StoreOf([EmptyCache EXCEPT !["100 Main St"] = <<392, -773>>]) }

Init ==
  /\ records = <<>>
  /\ points = <<>>
  /\ loading = TRUE
  /\ store \in InitStores
  /\ feed = "none"
  /\ runs = <<>>
  /\ sinceLookup = SLEEP_MS
  /\ userPos = Null
  /\ geoError = Null
  /\ geoPending = FALSE
  /\ nearest = <<>>

\* The pipeline effect runs for the record array recs, after the cleanup of
\* the run before it: the empty array commits at once, any other array starts
\* a run that goes on to its first suspension (or to its end).
PipelineEffect(recs) ==
  IF Len(recs) = 0
  THEN /\ runs' = Cleanup(runs)
       /\ points' = <<>>
       /\ loading' = FALSE
  ELSE LET run == Loop(NewRun(recs), store)
       IN /\ runs' = Append(Cleanup(runs), run)
          /\ points' = IF Commits(run) THEN run.out ELSE points
          /\ loading' = IF Commits(run) THEN FALSE ELSE loading

\* The model follows two runs of the pipeline effect over a non-empty record
\* array: a run and the run that supersedes it while it is still going.
RunSlots == {1, 2}

\* a further pipeline run over recs has a slot
RunFits(recs) == Len(recs) = 0 \/ Len(runs) + 1 \in RunSlots

\* The component mounts: the fetch effect issues the feed request and the
\* pipeline effect runs for the initial empty record array.
Mount ==
  /\ feed = "none"
  /\ feed' = "fetch"
  /\ PipelineEffect(records)
  /\ UNCHANGED <<records, store, sinceLookup, rankVars>>

\* React runs the effects again (cleanup, then setup) with the state kept, as
\* StrictMode's re-mount and Fast Refresh do. The fetch effect's cleanup
\* cancels the pending feed request, whose continuation then finds cancelled
\* set and does nothing, and a new request is issued; the pipeline effect's
\* cleanup cancels the run and a new run starts over the same records.
Refresh ==
  /\ feed # "none"
  /\ RunFits(records)
  /\ feed' = "fetch"
  /\ PipelineEffect(records)
  /\ UNCHANGED <<records, store, sinceLookup, rankVars>>

\* setRecords(data) from the fetch effect's live closure, and the pipeline
\* effect that the new array triggers
SetRecords(data) ==
  /\ records' = data
  /\ PipelineEffect(data)

FeedFailsSilently ==
  /\ feed = "fetch"
  /\ feed' = "failed"
  /\ UNCHANGED <<records, points, loading, store, runs, sinceLookup, rankVars>>
\* await fetch(SOC_DATA_URL) rejects: the catch sets the empty array
FeedFails ==
  /\ feed = "fetch"
  /\ feed' = "failed"
  /\ SetRecords(<<>>)
  /\ UNCHANGED <<store, sinceLookup, rankVars>>

\* await fetch(SOC_DATA_URL) resolves (res.ok is not looked at)
FeedResponse ==
  /\ feed = "fetch"
  /\ feed' = "json"
  /\ UNCHANGED <<records, points, loading, store, runs, sinceLookup, rankVars>>

\* await res.json() rejects (the catch), or resolves with something
\* Array.isArray refuses: the record array becomes empty
FeedNotAnArray ==
  /\ feed = "json"
  /\ feed' = "failed"
  /\ SetRecords(<<>>)
  /\ UNCHANGED <<store, sinceLookup, rankVars>>

\* await res.json() resolves with the array data
FeedJson(data) ==
  /\ feed = "json"
  /\ RunFits(data)
  /\ feed' = "done"
  /\ SetRecords(data)
  /\ UNCHANGED <<store, sinceLookup, rankVars>>

Sleeping(r) == runs[r].pc = "sleep" /\ runs[r].timer > 0

\* TickMs of time pass: the timers of the sleeping runs count down
Tick ==
  /\ \/ \E r \in DOMAIN runs : Sleeping(r)
     \/ sinceLookup < SLEEP_MS /\ \E r \in DOMAIN runs : ~Finished(runs[r])
  /\ runs' = [r \in DOMAIN runs |->
                IF Sleeping(r) THEN [runs[r] EXCEPT !.timer = Max(0, @ - TickMs)]
                ELSE runs[r]]
  /\ sinceLookup' = Min(SLEEP_MS, sinceLookup + TickMs)
  /\ UNCHANGED <<records, points, loading, store, feed, rankVars>>

\* await sleep(1100) is over: geocode issues the lookup, fetch(url, ...)
SleepDone(r) ==
  /\ r \in DOMAIN runs
  /\ runs[r].pc = "sleep"
  /\ runs[r].timer = 0
  /\ runs' = [runs EXCEPT ![r].pc = "fetch",
                          ![r].log[Len(runs[r].log)].lookedUp = TRUE]
  /\ sinceLookup' = 0
  /\ UNCHANGED <<records, points, loading, store, feed, rankVars>>

\* geocode has returned g to run r (after a suspension) with the cache item
\* st: the loop goes on, and commits if it ends
Resume(r, g, st) ==
  LET run == Loop(AfterGeocode(runs[r], g), st)
  IN /\ runs' = [runs EXCEPT ![r] = run]
     /\ store' = st
     /\ points' = IF Commits(run) THEN run.out ELSE points
     /\ loading' = IF Commits(run) THEN FALSE ELSE loading

ReturnNullStoringSnapshot(r) == Resume(r, Null, StoreOf(runs[r].cache))
\* return null, from the body of geocode or from its catch: nothing is
\* written to the cache item
ReturnNull(r) == Resume(r, Null, store)

\* the lookup fails: await fetch rejects (the catch), or the response is
\* not res.ok; geocode returns null
LookupFails(r) ==
  /\ r \in DOMAIN runs
  /\ runs[r].pc = "fetch"
  /\ ReturnNull(r)
  /\ UNCHANGED <<records, feed, sinceLookup, rankVars>>

\* await fetch resolves with a response that is res.ok
LookupResponse(r) ==
  /\ r \in DOMAIN runs
  /\ runs[r].pc = "fetch"
  /\ runs' = [runs EXCEPT ![r].pc = "json"]
  /\ UNCHANGED <<records, points, loading, store, feed, sinceLookup, rankVars>>

\* await res.json() rejects: the catch returns null
LookupJsonFails(r) ==
  /\ r \in DOMAIN runs
  /\ runs[r].pc = "json"
  /\ ReturnNull(r)
  /\ UNCHANGED <<records, feed, sinceLookup, rankVars>>

\* await res.json() resolves with body: an empty array or a first result
\* that does not parse returns null; otherwise the coordinate is written into
\* the cache object read before the sleep, that object is stored, and the
\* coordinate is returned
LookupJson(r, body) ==
  /\ r \in DOMAIN runs
  /\ runs[r].pc = "json"
  /\ LET g == ParseBody(body)
     IN IF g = Null
        THEN ReturnNull(r)
        ELSE Resume(r, g, WriteCache(runs[r].cache, runs[r].address, g))
  /\ UNCHANGED <<records, feed, sinceLookup, rankVars>>

Next ==
  \/ Mount
  \/ Refresh
  \/ FeedFails
  \/ FeedResponse
  \/ FeedNotAnArray
  \/ \E data \in FeedData : FeedJson(data)
  \/ Tick
  \/ \E r \in DOMAIN runs : SleepDone(r)
  \/ \E r \in DOMAIN runs : LookupFails(r)
  \/ \E r \in DOMAIN runs : LookupResponse(r)
  \/ \E r \in DOMAIN runs : LookupJsonFails(r)
  \/ \E r \in DOMAIN runs, body \in GeoBodies : LookupJson(r, body)

Spec == Init /\ [][Next]_vars

----------------------------------------------------------------------------
(* Properties of the pipeline and the geocoder *)

RunIds == DOMAIN runs

\* the entries of a run's history
Entries(run) == {run.log[j] : j \in DOMAIN run.log}

\* the geocode invocations of a run: started, and returned
Calls(run) == {e \in Entries(run) : e.called}
InCall(run) == run.pc \in {"sleep", "fetch", "json"}
Returned(run) ==
  {j \in DOMAIN run.log : run.log[j].called /\ ~(InCall(run) /\ j = Len(run.log))}

\* record j of the run has no usable embedded coordinate
NeedsAddress(run, j) == getCoordsFromRecord(run.recs[j]) = Null

\* the points of the run's output that come from record j
PointsOf(run, j) == {k \in DOMAIN run.out : run.out[k].rec = j}

C2_OnlyNewestRunCommits ==
  [][ (points' # points \/ loading' # loading) =>
        \/ Len(records') = 0 /\ points' = <<>> /\ loading' = FALSE
        \/ /\ Len(runs') > 0
           /\ ~runs'[Len(runs')].cancelled
           /\ Finished(runs'[Len(runs')])
           /\ runs'[Len(runs')].recs = records'
           /\ points' = runs'[Len(runs')].out
           /\ loading' = FALSE ]_vars

\* a superseded run has ended with points of its own that were discarded
C2_Witness ==
  \E r \in RunIds :
    /\ runs[r].outcome = "discarded"
    /\ Len(runs[r].out) > 0
    /\ points # runs[r].out

\* C3 as stated: a geocode call that finds the cache item unparseable goes on
\* to the pacing delay and the lookup as on a cache miss.
C3_CorruptStoreProceedsToLookup ==
  \A r \in RunIds : \A e \in Calls(runs[r]) : e.threw => e.slept

\* C4 as stated: an address the cache item holds keeps its coordinate in
\* every later cache item.
C4_CacheEntriesNeverChange ==
  [][ \A a \in Addresses :
        ReadCache(store)[a] # Null => ReadCache(store')[a] = ReadCache(store)[a] ]_vars

\* C5: a geocode call for an address the cache holds returns the cached
\* coordinate without sleeping and without a lookup; a call that sleeps or
\* looks up has read a cache without its address.
C5_CacheHitReturnsAtOnce ==
  \A r \in RunIds :
    /\ \A e \in Calls(runs[r]) :
         e.cached # Null => ~e.slept /\ ~e.lookedUp /\ e.result = e.cached
    /\ InCall(runs[r]) => runs[r].cache[runs[r].address] = Null

\* a call has found its address in the cache
C5_Witness ==
  \E r \in RunIds : \E e \in Calls(runs[r]) : e.cached # Null

\* C6 as stated: a lookup is issued only when a full pacing delay has passed
\* since the lookup before it, whichever run issued that one.
C6_OneLookupPerPacingDelay ==
  [][ \A r \in RunIds :
        runs[r].pc = "sleep" /\ runs'[r].pc = "fetch" => sinceLookup >= SLEEP_MS ]_vars

\* the coordinates the system holds: committed points, the points the runs
\* have accumulated, and the entries of the cache item
StoredCoords ==
  {<<points[k].lat, points[k].lng>> : k \in DOMAIN points}
  \cup UNION {{<<runs[r].out[k].lat, runs[r].out[k].lng>> : k \in DOMAIN runs[r].out}
                : r \in RunIds}
  \cup {ReadCache(store)[a] : a \in {b \in Addresses : ReadCache(store)[b] # Null}}

InRange(c) == c[1] >= -900 /\ c[1] <= 900 /\ c[2] >= -1800 /\ c[2] <= 1800

\* C7 as stated: every stored coordinate has its latitude in [-90, 90] and
\* its longitude in [-180, 180].
C7_StoredCoordinatesInRange == \A c \in StoredCoords : InRange(c)

\* C7 amended: every stored coordinate is a pair of finite numbers; a parse
\* result that is not finite is discarded, one that is finite is stored
\* whatever its range.
C7_StoredCoordinatesFinite ==
  \A c \in StoredCoords : Len(c) = 2 /\ c[1] # NaN /\ c[2] # NaN

\* the record whose first field does not parse and whose second is out of
\* range has been committed with the second field's coordinate
C7_Witness ==
  \E r \in RunIds : \E k \in DOMAIN runs[r].out :
    /\ runs[r].outcome = "committed"
    /\ points = runs[r].out
    /\ runs[r].recs[runs[r].out[k].rec] = RecOutOfRange
    /\ <<points[k].lat, points[k].lng>> = <<950, -2005>>

\* C8: a record with a valid embedded coordinate never reaches geocode: no
\* call, no sleep, no lookup, no unit of the budget, and its point carries the
\* embedded coordinate.
C8_EmbeddedNeverGeocodes ==
  \A r \in RunIds :
    /\ \A j \in DOMAIN runs[r].log :
         ~NeedsAddress(runs[r], j) =>
           /\ ~runs[r].log[j].called
           /\ ~runs[r].log[j].slept
           /\ ~runs[r].log[j].lookedUp
           /\ (IF j < Len(runs[r].log) THEN runs[r].log[j + 1].budget
                                       ELSE runs[r].geocoded) = runs[r].log[j].budget
           /\ \E k \in PointsOf(runs[r], j) :
                <<runs[r].out[k].lat, runs[r].out[k].lng>>
                  = getCoordsFromRecord(runs[r].recs[j])
    /\ InCall(runs[r]) => NeedsAddress(runs[r], runs[r].i)

\* a run has resolved a record with an embedded coordinate and an address
\* after a geocode call for another record
C8_Witness ==
  \E r \in RunIds : \E j \in DOMAIN runs[r].log :
    /\ ~NeedsAddress(runs[r], j)
    /\ Truthy(bestAddress(runs[r].recs[j]))
    /\ \E e \in Calls(runs[r]) : e.rec < j

\* C9: a record that needs the address fallback and is reached with the
\* budget used up is dropped without a geocode call; no call is in progress
\* with the budget used up.
C9_ExhaustedBudgetDrops ==
  \A r \in RunIds :
    /\ \A j \in DOMAIN runs[r].log :
         NeedsAddress(runs[r], j) /\ runs[r].log[j].budget >= MAX_GEOCODE =>
           /\ ~runs[r].log[j].called
           /\ ~runs[r].log[j].slept
           /\ PointsOf(runs[r], j) = {}
    /\ InCall(runs[r]) => runs[r].geocoded < MAX_GEOCODE

\* a record with an address has been reached with the budget used up
C9_Witness ==
  \E r \in RunIds : \E j \in DOMAIN runs[r].log :
    /\ NeedsAddress(runs[r], j)
    /\ DeriveAddress(bestAddress(runs[r].recs[j])) # ""
    /\ runs[r].log[j].budget >= MAX_GEOCODE

\* the records of the run whose loop body has been left
Done(run) == 1..(run.i - 1)

\* record j of the run has been resolved: by an embedded coordinate or by a
\* geocode call that returned one
Resolved(run, j) == ~NeedsAddress(run, j) \/ run.log[j].result # Null

\* C11: the output of a run is a subsequence of its records in their order:
\* the points' records are strictly increasing, a record that has been
\* resolved has exactly one point, a record that failed has none, and the
\* output is never longer than the records gone through; the points a run
\* has committed, until its cleanup, are its output.
C11_OutputIsOrderedSubsequence ==
  \A r \in RunIds :
    /\ \A k \in DOMAIN runs[r].out : runs[r].out[k].rec \in Done(runs[r])
    /\ \A k, l \in DOMAIN runs[r].out :
         k < l => runs[r].out[k].rec < runs[r].out[l].rec
    /\ \A j \in Done(runs[r]) :
         Cardinality(PointsOf(runs[r], j)) = IF Resolved(runs[r], j) THEN 1 ELSE 0
    /\ Len(runs[r].out) <= Len(runs[r].recs)
    /\ Commits(runs[r]) /\ ~runs[r].cancelled => points = runs[r].out

\* a run over two records has committed an output of one point: the geocode
\* call of the first record failed, and the point of the second stands first
C11_Witness ==
  /\ \E r \in RunIds :
       /\ Commits(runs[r]) /\ points = runs[r].out
       /\ Len(runs[r].recs) = 2 /\ Len(runs[r].out) = 1 /\ runs[r].out[1].rec = 2
       /\ runs[r].log[1].called

\* run r is inside a lookup: between the end of the sleep and the return
InLookup(run) == run.pc \in {"fetch", "json"}

\* C12: a geocode call whose lookup fails returns null to the loop, which goes
\* on with the next record (no error reaches it); the step leaves the cache
\* item as it was, and the record gets no point.
C12_FailedLookupReturnsAbsent ==
  [][ \A r \in RunIds :
        /\ InLookup(runs[r])
        /\ runs'[r].i > runs[r].i
        /\ runs'[r].log[runs[r].i].result = Null
        => /\ store' = store
           /\ PointsOf(runs'[r], runs[r].i) = {}
           /\ runs'[r].pc \in {"sleep", "done"} ]_vars

\* a call has slept, issued its lookup and returned null
C12_Witness ==
  \E r \in RunIds : \E j \in Returned(runs[r]) :
    /\ runs[r].log[j].lookedUp
    /\ runs[r].log[j].result = Null

\* the units of budget the call of a history entry has taken
Taken(e) == IF e.called /\ e.result # Null THEN 1 ELSE 0

\* C13: a run resolves its records one at a time, in order. The history has
\* one entry per record begun, in record order; only the record the run is at
\* can be inside a geocode call; every record before it has finished its
\* call, the delay and the lookup included; and each record finds the budget
\* as the record before it left it.
C13_ResolutionIsSequential ==
  \A r \in RunIds :
    /\ Len(runs[r].log) = IF InCall(runs[r]) THEN runs[r].i ELSE runs[r].i - 1
    /\ \A j \in DOMAIN runs[r].log : runs[r].log[j].rec = j
    /\ \A j \in Done(runs[r]) : runs[r].log[j].slept => runs[r].log[j].lookedUp
    /\ \A j \in DOMAIN runs[r].log :
         j > 1 => runs[r].log[j].budget
                    = runs[r].log[j - 1].budget + Taken(runs[r].log[j - 1])
    /\ InCall(runs[r]) => runs[r].log[runs[r].i].slept

\* the second record of a run is inside its geocode call after the call of
\* the first has slept, looked up and returned
C13_Witness ==
  \E r \in RunIds :
    /\ InCall(runs[r])
    /\ runs[r].i = 2
    /\ runs[r].log[1].slept /\ runs[r].log[1].lookedUp

\* the coordinates of the first results of the bodies of the service
FirstResults ==
  {<<ParseFloat(b[1].lat), ParseFloat(b[1].lon)>> : b \in {c \in GeoBodies : Len(c) > 0}}

C16_FailedFetchGivesEmptyState ==
  feed = "failed" =>
    /\ records = <<>>
    /\ points = <<>>
    /\ loading = FALSE
    /\ \A r \in RunIds : runs[r].cancelled

\* the fetch has failed after an earlier feed whose run had points
C16_Witness ==
  /\ feed = "failed"
  /\ \E r \in RunIds : Commits(runs[r]) /\ Len(runs[r].out) > 0

\* the data fetch of the live closure is under way
Fetching == feed \in {"fetch", "json"}

\* the run of the current record array is still resolving records
Resolving == \E r \in RunIds : ~runs[r].cancelled /\ ~Finished(runs[r])

\* C17 as stated: while the data fetch or the run over the fetched records
\* is under way the loading flag is true, so the render does not reach the
\* empty state.
C17_LoadingWhileFetchingOrResolving ==
  Fetching \/ Resolving => loading = TRUE

\* the points of a run's output whose coordinate came from geocode
GeocodedPoints(run) == {k \in DOMAIN run.out : NeedsAddress(run, run.out[k].rec)}

\* C18: in every state of a run the counter geocoded is the number of points
\* of its output that came from geocode (cache hits included) and is at most
\* MAX_GEOCODE; the points with embedded coordinates are not counted.
C18_GeocodedPointsWithinBudget ==
  \A r \in RunIds :
    /\ runs[r].geocoded <= MAX_GEOCODE
    /\ Cardinality(GeocodedPoints(runs[r])) = runs[r].geocoded

\* a run has used up its budget and its output is longer than the budget
C18_Witness ==
  \E r \in RunIds :
    /\ runs[r].geocoded = MAX_GEOCODE
    /\ Cardinality(GeocodedPoints(runs[r])) = MAX_GEOCODE
    /\ Len(runs[r].out) > MAX_GEOCODE

----------------------------------------------------------------------------
(* Embedded extraction over every combination of field values *)

\* the values a location field of a record can take: absent, a string, an
\* object with two coordinates that parse (two different ones), with a
\* latitude that does not parse, with no longitude
ExtractFields ==
  { Missing,
    Str("100 Main St"),
    Obj("39.0", "-77.1", Undef, Undef, Undef),
    Obj("38.9", "-77.3", Undef, Undef, Undef),
    Obj("abc", "-77.1", Undef, Undef, Undef),
    Obj("39.0", Undef, Undef, Undef, Undef) }

ExtractRecs == {Rec(a, b, c, Missing, Missing) : a, b, c \in ExtractFields}

\* feeds of one record
ExtractFeeds == {<<rec>> : rec \in ExtractRecs}

\* the component has mounted and the feed's response has arrived
InitExtract ==
  /\ records = <<>>
  /\ points = <<>>
  /\ loading = FALSE
  /\ store = StoreAbsent
  /\ feed = "json"
  /\ runs = <<>>
  /\ sinceLookup = SLEEP_MS
  /\ userPos = Null
  /\ geoError = Null
  /\ geoPending = FALSE
  /\ nearest = <<>>

\* the feed's array arrives and the pipeline runs over it
NextExtract == \E data \in ExtractFeeds : FeedJson(data)

SpecExtract == InitExtract /\ [][NextExtract]_vars

\* the three fields in their priority order
PriorityFields(rec) == <<rec.intake_location, rec.location, rec.found_location>>

\* a field value whose latitude and longitude both parse to finite numbers
Qualifies(v) ==
  v.t = "object" /\ ParseFloat(v.latitude) # NaN /\ ParseFloat(v.longitude) # NaN

\* C15: a record with a qualifying field gets, without a geocode call, the
\* point of the first of intake_location, location, found_location that
\* qualifies, fields before it that are absent or do not parse being
\* skipped; a record with no qualifying field gets no point from its fields.
C15_FirstQualifyingFieldWins ==
  \A r \in RunIds : \A j \in DOMAIN runs[r].log :
    LET f == PriorityFields(runs[r].recs[j])
        Q == {n \in 1..3 : Qualifies(f[n])}
    IN IF Q = {}
       THEN PointsOf(runs[r], j) # {} => runs[r].log[j].result # Null
       ELSE LET n == CHOOSE m \in Q : \A l \in Q : m <= l
            IN /\ ~runs[r].log[j].called
               /\ \E k \in PointsOf(runs[r], j) :
                    <<runs[r].out[k].lat, runs[r].out[k].lng>>
                      = <<ParseFloat(f[n].latitude), ParseFloat(f[n].longitude)>>

\* a record whose intake_location does not parse and whose location and
\* found_location hold different coordinates has the point of its location
C15_Witness ==
  \E r \in RunIds :
    /\ runs[r].recs = <<Rec(Obj("abc", "-77.1", Undef, Undef, Undef),
                            Obj("38.9", "-77.3", Undef, Undef, Undef),
                            Obj("39.0", "-77.1", Undef, Undef, Undef), Missing, Missing)>>
    /\ points = <<[lat |-> 389, lng |-> -773, rec |-> 1]>>

----------------------------------------------------------------------------
(* The Proximity Ranker: the nearest memo and the geolocation effect *)

\* the positions the geolocation provider can report
Positions == {<<390, -771>>, <<392, -773>>, <<391, -772>>}

\* the coordinates of the points handed to the ranker
RankCoords == <<  <<391, -771>>, <<390, -771>>, <<950, -2005>>, <<389, -771>>, <<392, -773>>  >>

\* haversineKm(a, b) with R = 6371, tabulated over Positions and RankCoords
\* in metres (the double rounded; two entries are equal exactly when the
\* doubles are)
haversineKm(a, b) ==
  CASE a = <<390, -771>> /\ b = <<390, -771>> -> 0
    [] a = <<390, -771>> /\ b = <<392, -773>> -> 28150
    [] a = <<390, -771>> /\ b = <<389, -771>> -> 11119
    [] a = <<390, -771>> /\ b = <<391, -771>> -> 11119
    [] a = <<390, -771>> /\ b = <<950, -2005>> -> 5379406
    [] a = <<392, -773>> /\ b = <<390, -771>> -> 28150
    [] a = <<392, -773>> /\ b = <<392, -773>> -> 0
    [] a = <<392, -773>> /\ b = <<389, -771>> -> 37564
    [] a = <<392, -773>> /\ b = <<391, -771>> -> 20520
    [] a = <<392, -773>> /\ b = <<950, -2005>> -> 5358957
    [] a = <<391, -772>> /\ b = <<390, -771>> -> 14079
    [] a = <<391, -772>> /\ b = <<392, -773>> -> 14071
    [] a = <<391, -772>> /\ b = <<389, -771>> -> 23859
    [] a = <<391, -772>> /\ b = <<391, -771>> -> 8629
    [] a = <<391, -772>> /\ b = <<950, -2005>> -> 5369181

\* the point list [RankCoords[1 + (k * stride) % 5] : k = 1..n], each point
\* carrying its place in the list as rec
RankPoints(n, stride) ==
  [k \in 1..n |->
     LET c == RankCoords[1 + ((k * stride) % Len(RankCoords))]
     IN [lat |-> c[1], lng |-> c[2], rec |-> k]]

RankInputs == {RankPoints(n, stride) : n \in 0..MaxPoints, stride \in {1, 2, 5}}

\* points.map((p) => ({...p, dist: haversineKm(userPos, [p.lat, p.lng])}))
WithDist(ref, pts) ==
  [k \in DOMAIN pts |->
     [lat |-> pts[k].lat, lng |-> pts[k].lng, rec |-> pts[k].rec,
      dist |-> haversineKm(ref, <<pts[k].lat, pts[k].lng>>)]]

\* the comparator (a, b) => a.dist - b.dist
Compare(a, b) == a.dist - b.dist

ComesBeforeUnstable(x, y) == Compare(x, y) <= 0
\* x, met after y in the input, is placed before y: only when it compares
\* smaller (Array.prototype.sort is stable)
ComesBefore(x, y) == Compare(x, y) < 0

\* x inserted into the sorted sequence s, behind the elements it does not
\* come before
RECURSIVE Insert(_, _)
Insert(s, x) ==
  IF Len(s) = 0 THEN <<x>>
  ELSE IF ComesBefore(x, s[Len(s)])
       THEN Append(Insert(SubSeq(s, 1, Len(s) - 1), x), s[Len(s)])
       ELSE Append(s, x)

\* withDist.sort((a, b) => a.dist - b.dist)
RECURSIVE Sort(_)
Sort(s) == IF Len(s) = 0 THEN <<>> ELSE Insert(Sort(SubSeq(s, 1, Len(s) - 1)), s[Len(s)])

\* s.slice(0, k)
Slice(s, k) == SubSeq(s, 1, Min(k, Len(s)))

\* the body of the nearest memo
Nearest(ref, pts) ==
  IF ref = Null \/ Len(pts) = 0 THEN <<>>
  ELSE Slice(Sort(WithDist(ref, pts)), NEAREST_K)

\* The geolocation effect asks for the position once
RequestPosition ==
  /\ userPos = Null /\ geoError = Null /\ ~geoPending
  /\ geoPending' = TRUE
  /\ UNCHANGED <<pipeVars, userPos, geoError, nearest>>

\* 'geolocation' in navigator is false
GeolocationUnavailable ==
  /\ userPos = Null /\ geoError = Null /\ ~geoPending
  /\ geoError' = <<"Geolocation not available">>
  /\ UNCHANGED <<pipeVars, userPos, geoPending, nearest>>

\* the success callback: setUserPos, and the render recomputes nearest
PositionSuccess(pos) ==
  /\ geoPending
  /\ geoPending' = FALSE
  /\ userPos' = pos
  /\ nearest' = Nearest(pos, points)
  /\ UNCHANGED <<pipeVars, geoError>>

\* the error callback: setGeoError(err.message || 'Geolocation denied')
PositionError(message) ==
  /\ geoPending
  /\ geoPending' = FALSE
  /\ geoError' = <<IF message = "" THEN "Geolocation denied" ELSE message>>
  /\ UNCHANGED <<pipeVars, userPos, nearest>>

\* the ranker is given every point list of RankInputs as the committed points
InitRank ==
  /\ records = <<>>
  /\ points \in RankInputs
  /\ loading = FALSE
  /\ store = StoreAbsent
  /\ feed = "done"
  /\ runs = <<>>
  /\ sinceLookup = SLEEP_MS
  /\ userPos = Null
  /\ geoError = Null
  /\ geoPending = FALSE
  /\ nearest = Nearest(Null, points)

NextRank ==
  \/ RequestPosition
  \/ GeolocationUnavailable
  \/ \E pos \in Positions : PositionSuccess(pos)
  \/ \E message \in {"", "User denied Geolocation"} : PositionError(message)

SpecRank == InitRank /\ [][NextRank]_vars

\* C10: the nearest list is no longer than min(25, number of points), is in
\* non-decreasing order of distance, and keeps points of equal distance in
\* the order of the input.
C10_NearestSortedStableBounded ==
  /\ Len(nearest) <= Min(NEAREST_K, Len(points))
  /\ \A i, j \in DOMAIN nearest :
       i < j => /\ nearest[i].dist <= nearest[j].dist
                /\ nearest[i].dist = nearest[j].dist => nearest[i].rec < nearest[j].rec

\* a list of more than 25 points has been ranked, cut to 25, with two points
\* of equal distance at different coordinates next to points farther away
C10_Witness ==
  /\ Len(points) > NEAREST_K
  /\ Len(nearest) = NEAREST_K
  /\ \E i, j \in DOMAIN nearest :
       /\ i < j
       /\ nearest[i].dist = nearest[j].dist
       /\ nearest[i].lat # nearest[j].lat
  /\ nearest[1].dist < nearest[NEAREST_K].dist

====
